---- MODULE Spec2Model ----
(***************************************************************************)
(* Model of outrigger/psi/compute.py: percent-spliced-in (PSI) of          *)
(* alternative splicing events from junction read counts.                  *)
(*                                                                         *)
(* pandas values are modelled as follows.  A Series of junction reads is a *)
(* sequence of integers.  A return value that is either a Series or None   *)
(* is a tagged record (Reads(x) or None), so that the two stay comparable. *)
(* A case label is the Python string itself; str.format is modelled by     *)
(* string concatenation.  pdb.set_trace() is a debugger breakpoint and is  *)
(* modelled as execution continuing past it.                               *)
(***************************************************************************)
EXTENDS Integers, Sequences, FiniteSets, TLC

VARIABLES
    pc,                 \* position of the call being modelled
    isoform1,           \* reads of one sample on the isoform1 junctions
    isoform2,           \* reads of one sample on the isoform2 junctions
    n_junctions,        \* total number of junctions handed to the classifier
    min_reads,          \* minimum number of reads per junction
    multiplier,         \* uneven_coverage_multiplier
    result,             \* value returned by the call
    junction_reads_2d,  \* (samples, junctions) table of junction reads
    event_annotation,   \* ids of the events of the annotation table
    todo,               \* events the sequential loop has still to visit
    psis,               \* the list psis of _maybe_parallelize_psi
    outputs,            \* value _single_event_psi returned, per visited event
    maybe_rejected,     \* value _maybe_reject returned, per visited event
    runs,               \* outcome of calculate_psi, per way of running it
    isoform_reads,      \* junction reads of one isoform, by (junction, sample)
    method              \* how the junctions of an isoform are consolidated

classifier_vars == <<isoform1, isoform2, n_junctions, result>>
table_vars == <<junction_reads_2d, event_annotation, todo, psis, outputs,
                maybe_rejected, runs>>

reducer_vars == <<isoform_reads, method>>

vars == <<pc, isoform1, isoform2, n_junctions, min_reads, multiplier, result,
          junction_reads_2d, event_annotation, todo, psis, outputs,
          maybe_rejected, runs, isoform_reads, method>>

-----------------------------------------------------------------------------
(* Bounds of the model                                                     *)

MaxReads == 2
MaxMinReads == 3
MaxMultiplier == 2
MaxNJunctions == 3
MaxIsoformLen == 2
MaxTableReads == 2
MaxTableMinReads == 2
MaxReducerReads == 2

-----------------------------------------------------------------------------
(* Values                                                                  *)

Reads(x) == [tag |-> "reads", v |-> x]
None == [tag |-> "None", v |-> <<>>]
Unclassified == [tag |-> "???", v |-> <<>>]
Pending == [tag |-> "pending", v |-> <<>>]
\* a psi Series: its name is the event id, its index the sample ids
Series(name, x) == [tag |-> "psi", name |-> name, v |-> x]

SeqsUpTo(S, n) == UNION {[1..k -> S] : k \in 1..n}

RECURSIVE sum(_)
sum(x) == IF x = <<>> THEN 0 ELSE Head(x) + sum(Tail(x))

RECURSIVE minimum(_)
minimum(x) ==
    IF Len(x) = 1 THEN x[1]
    ELSE LET rest == minimum(Tail(x))
         IN  IF Head(x) < rest THEN Head(x) ELSE rest

\* (x >= m).all(), (x == 0).all(), (x < m).all(), (x == 0).any(), (x < m).any()
all_ge(x, m) == \A i \in 1..Len(x) : x[i] >= m
all_zero(x) == \A i \in 1..Len(x) : x[i] = 0
all_lt(x, m) == \A i \in 1..Len(x) : x[i] < m
any_zero(x) == \E i \in 1..Len(x) : x[i] = 0
any_lt(x, m) == \E i \in 1..Len(x) : x[i] < m

-----------------------------------------------------------------------------
(* _single_sample_maybe_sufficient_reads                                   *)

Rejected(case) == [isoform1 |-> None, isoform2 |-> None, case |-> case]
Accepted(i1, i2, case) == [isoform1 |-> Reads(i1), isoform2 |-> Reads(i2), case |-> case]

sufficient_strict(i1, i2, n, m, case, letters) ==
    IF (sum(i1) + sum(i2)) > (m * n)
    THEN Accepted(i1, i2, case \o ", option " \o letters[1]
                           \o ": There are sufficient junction reads")
    ELSE Rejected(case \o ", option " \o letters[2]
                       \o ": There are insufficient junction reads")

sufficient_swapped_letters(i1, i2, n, m, case, letters) ==
    IF (sum(i1) + sum(i2)) >= (m * n)
    THEN Accepted(i1, i2, case \o ", option " \o letters[2]
                           \o ": There are sufficient junction reads")
    ELSE Rejected(case \o ", option " \o letters[1]
                       \o ": There are insufficient junction reads")

_single_sample_maybe_sufficient_reads(i1, i2, n, m, case, letters) ==
    IF (sum(i1) + sum(i2)) >= (m * n)
    THEN Accepted(i1, i2, case \o ", option " \o letters[1]
                           \o ": There are sufficient junction reads")
    ELSE Rejected(case \o ", option " \o letters[2]
                       \o ": There are insufficient junction reads")

-----------------------------------------------------------------------------
(* _single_sample_check_unequal_read_coverage                              *)

coverage_one_sided(isoform, k) ==
    IF Len(isoform) = 1 THEN Reads(isoform)
    ELSE LET multiplied == [i \in 1..Len(isoform) |-> isoform[i] * k]
             junction0 == isoform[1]
             junction1 == isoform[2]
         IN  IF junction0 > junction1 /\ junction0 > multiplied[2]
             THEN None
             ELSE Reads(isoform)

_single_sample_check_unequal_read_coverage(isoform, k) ==
    IF Len(isoform) = 1 THEN Reads(isoform)
    ELSE LET multiplied == [i \in 1..Len(isoform) |-> isoform[i] * k]
             junction0 == isoform[1]
             junction1 == isoform[2]
         IN  IF junction0 > junction1 /\ junction0 > multiplied[2]
             THEN None
             ELSE IF junction1 > junction0 /\ junction1 > multiplied[1]
             THEN None
             ELSE Reads(isoform)

-----------------------------------------------------------------------------
(* _single_isoform_maybe_reject                                            *)

Case0 == "Case 0: Unequal read coverage"
Case1 == "Case 1: Perfect exclusion"
Case2 == "Case 2: Perfect inclusion"
Case3 == "Case 3: Sufficient coverage on both isoforms"
Case4 == "Case 4: Any observed junction is zero and it's not all of one isoform"
Case5 == "Case 5: Isoform1 totally covered and isoform2 not"
Case6 == "Case 6: Isoform2 is totally covered and isoform1 is not"
Case7 == "Case 7: Isoform 1 is fully covered and isoform2 is questionable"
Case8 == "Case 8: Isoform 1 is fully covered and isoform2 is questionable"
Case9a == "Case 9a: 3 junctions have less than minimum reads (2 on iso1 and 1 on iso2)"
Case9b == "Case 9b: 3 junctions have less than minimum reads (2 on iso2 and one on iso1)"
Case9 == "Case 9: Insufficient reads somehow"
Case10 == "Case 10: isoform1 and isoform2 don't have sufficient reads"
CaseUnknown == "Case ???"

\* the if/elif chain of lines 348-409, entered once both isoforms passed
\* the coverage check
decision_chain_case3_first(i1, i2, n, m) ==
    IF all_ge(i1, m) /\ all_ge(i2, m) THEN Accepted(i1, i2, Case3)
    ELSE IF all_ge(i1, m) /\ all_zero(i2) THEN Accepted(i1, i2, Case1)
    ELSE IF all_zero(i1) /\ all_ge(i2, m) THEN Accepted(i1, i2, Case2)
    ELSE IF any_zero(i1) \/ any_zero(i2) THEN Rejected(Case4)
    ELSE IF all_ge(i1, m) /\ all_lt(i2, m)
        THEN _single_sample_maybe_sufficient_reads(i1, i2, n, m, Case5, <<"a", "b">>)
    ELSE IF all_lt(i1, m) /\ all_ge(i2, m)
        THEN _single_sample_maybe_sufficient_reads(i1, i2, n, m, Case6, <<"a", "b">>)
    ELSE IF all_ge(i1, m) /\ any_lt(i2, m)
        THEN _single_sample_maybe_sufficient_reads(i1, i2, n, m, Case7, <<"a", "b">>)
    ELSE IF any_lt(i1, m) /\ all_ge(i2, m)
        THEN _single_sample_maybe_sufficient_reads(i1, i2, n, m, Case8, <<"a", "b">>)
    ELSE IF any_lt(i1, m) \/ any_lt(i2, m)
        THEN IF all_lt(i1, m) /\ any_lt(i2, m) THEN Rejected(Case9a)
             ELSE IF any_lt(i1, m) /\ all_lt(i2, m) THEN Rejected(Case9b)
             ELSE _single_sample_maybe_sufficient_reads(i1, i2, n, m, Case9, <<"c", "d">>)
    ELSE [isoform1 |-> Unclassified, isoform2 |-> Unclassified, case |-> CaseUnknown]

decision_chain_without_case9(i1, i2, n, m) ==
    IF all_ge(i1, m) /\ all_zero(i2) THEN Accepted(i1, i2, Case1)
    ELSE IF all_zero(i1) /\ all_ge(i2, m) THEN Accepted(i1, i2, Case2)
    ELSE IF all_ge(i1, m) /\ all_ge(i2, m) THEN Accepted(i1, i2, Case3)
    ELSE IF any_zero(i1) \/ any_zero(i2) THEN Rejected(Case4)
    ELSE IF all_ge(i1, m) /\ all_lt(i2, m)
        THEN _single_sample_maybe_sufficient_reads(i1, i2, n, m, Case5, <<"a", "b">>)
    ELSE IF all_lt(i1, m) /\ all_ge(i2, m)
        THEN _single_sample_maybe_sufficient_reads(i1, i2, n, m, Case6, <<"a", "b">>)
    ELSE IF all_ge(i1, m) /\ any_lt(i2, m)
        THEN _single_sample_maybe_sufficient_reads(i1, i2, n, m, Case7, <<"a", "b">>)
    ELSE IF any_lt(i1, m) /\ all_ge(i2, m)
        THEN _single_sample_maybe_sufficient_reads(i1, i2, n, m, Case8, <<"a", "b">>)
    ELSE IF any_lt(i1, m) \/ any_lt(i2, m) THEN Rejected(Case10)
    ELSE [isoform1 |-> Unclassified, isoform2 |-> Unclassified, case |-> CaseUnknown]

decision_chain_exclusion_unchecked(i1, i2, n, m) ==
    IF all_zero(i2) THEN Accepted(i1, i2, Case1)
    ELSE IF all_zero(i1) /\ all_ge(i2, m) THEN Accepted(i1, i2, Case2)
    ELSE IF all_ge(i1, m) /\ all_ge(i2, m) THEN Accepted(i1, i2, Case3)
    ELSE IF any_zero(i1) \/ any_zero(i2) THEN Rejected(Case4)
    ELSE IF all_ge(i1, m) /\ all_lt(i2, m)
        THEN _single_sample_maybe_sufficient_reads(i1, i2, n, m, Case5, <<"a", "b">>)
    ELSE IF all_lt(i1, m) /\ all_ge(i2, m)
        THEN _single_sample_maybe_sufficient_reads(i1, i2, n, m, Case6, <<"a", "b">>)
    ELSE IF all_ge(i1, m) /\ any_lt(i2, m)
        THEN _single_sample_maybe_sufficient_reads(i1, i2, n, m, Case7, <<"a", "b">>)
    ELSE IF any_lt(i1, m) /\ all_ge(i2, m)
        THEN _single_sample_maybe_sufficient_reads(i1, i2, n, m, Case8, <<"a", "b">>)
    ELSE IF any_lt(i1, m) \/ any_lt(i2, m)
        THEN IF all_lt(i1, m) /\ any_lt(i2, m) THEN Rejected(Case9a)
             ELSE IF any_lt(i1, m) /\ all_lt(i2, m) THEN Rejected(Case9b)
             ELSE _single_sample_maybe_sufficient_reads(i1, i2, n, m, Case9, <<"c", "d">>)
    ELSE IF any_lt(i1, m) \/ any_lt(i2, m) THEN Rejected(Case10)
    ELSE [isoform1 |-> Unclassified, isoform2 |-> Unclassified, case |-> CaseUnknown]

decision_chain_without_inclusion(i1, i2, n, m) ==
    IF all_ge(i1, m) /\ all_zero(i2) THEN Accepted(i1, i2, Case1)
    ELSE IF all_ge(i1, m) /\ all_ge(i2, m) THEN Accepted(i1, i2, Case3)
    ELSE IF any_zero(i1) \/ any_zero(i2) THEN Rejected(Case4)
    ELSE IF all_ge(i1, m) /\ all_lt(i2, m)
        THEN _single_sample_maybe_sufficient_reads(i1, i2, n, m, Case5, <<"a", "b">>)
    ELSE IF all_lt(i1, m) /\ all_ge(i2, m)
        THEN _single_sample_maybe_sufficient_reads(i1, i2, n, m, Case6, <<"a", "b">>)
    ELSE IF all_ge(i1, m) /\ any_lt(i2, m)
        THEN _single_sample_maybe_sufficient_reads(i1, i2, n, m, Case7, <<"a", "b">>)
    ELSE IF any_lt(i1, m) /\ all_ge(i2, m)
        THEN _single_sample_maybe_sufficient_reads(i1, i2, n, m, Case8, <<"a", "b">>)
    ELSE IF any_lt(i1, m) \/ any_lt(i2, m)
        THEN IF all_lt(i1, m) /\ any_lt(i2, m) THEN Rejected(Case9a)
             ELSE IF any_lt(i1, m) /\ all_lt(i2, m) THEN Rejected(Case9b)
             ELSE _single_sample_maybe_sufficient_reads(i1, i2, n, m, Case9, <<"c", "d">>)
    ELSE IF any_lt(i1, m) \/ any_lt(i2, m) THEN Rejected(Case10)
    ELSE [isoform1 |-> Unclassified, isoform2 |-> Unclassified, case |-> CaseUnknown]

decision_chain(i1, i2, n, m) ==
    IF all_ge(i1, m) /\ all_zero(i2) THEN Accepted(i1, i2, Case1)
    ELSE IF all_zero(i1) /\ all_ge(i2, m) THEN Accepted(i1, i2, Case2)
    ELSE IF all_ge(i1, m) /\ all_ge(i2, m) THEN Accepted(i1, i2, Case3)
    ELSE IF any_zero(i1) \/ any_zero(i2) THEN Rejected(Case4)
    ELSE IF all_ge(i1, m) /\ all_lt(i2, m)
        THEN _single_sample_maybe_sufficient_reads(i1, i2, n, m, Case5, <<"a", "b">>)
    ELSE IF all_lt(i1, m) /\ all_ge(i2, m)
        THEN _single_sample_maybe_sufficient_reads(i1, i2, n, m, Case6, <<"a", "b">>)
    ELSE IF all_ge(i1, m) /\ any_lt(i2, m)
        THEN _single_sample_maybe_sufficient_reads(i1, i2, n, m, Case7, <<"a", "b">>)
    ELSE IF any_lt(i1, m) /\ all_ge(i2, m)
        THEN _single_sample_maybe_sufficient_reads(i1, i2, n, m, Case8, <<"a", "b">>)
    ELSE IF any_lt(i1, m) \/ any_lt(i2, m)
        THEN IF all_lt(i1, m) /\ any_lt(i2, m) THEN Rejected(Case9a)
             ELSE IF any_lt(i1, m) /\ all_lt(i2, m) THEN Rejected(Case9b)
             ELSE _single_sample_maybe_sufficient_reads(i1, i2, n, m, Case9, <<"c", "d">>)
    \* the second elif with the same condition (Case 10) can never be taken
    ELSE IF any_lt(i1, m) \/ any_lt(i2, m) THEN Rejected(Case10)
    ELSE [isoform1 |-> Unclassified, isoform2 |-> Unclassified, case |-> CaseUnknown]

classify_rules_before_coverage(i1, i2, n, m, k) ==
    IF (all_ge(i1, m) /\ all_zero(i2)) \/ (all_zero(i1) /\ all_ge(i2, m))
    THEN decision_chain(i1, i2, n, m)
    ELSE LET c1 == _single_sample_check_unequal_read_coverage(i1, k)
             c2 == _single_sample_check_unequal_read_coverage(i2, k)
         IN  IF c1 = None \/ c2 = None
             THEN Rejected(Case0)
             ELSE decision_chain(c1.v, c2.v, n, m)

_single_isoform_maybe_reject(i1, i2, n, m, k) ==
    LET c1 == _single_sample_check_unequal_read_coverage(i1, k)
        c2 == _single_sample_check_unequal_read_coverage(i2, k)
    IN  IF c1 = None \/ c2 = None
        THEN Rejected(Case0)
        ELSE decision_chain(c1.v, c2.v, n, m)

-----------------------------------------------------------------------------
(* Specification of one call of the Sample Classifier                      *)

\* no call of the reducer takes part either
NoReducerCall ==
    /\ isoform_reads = <<>>
    /\ method = ""

\* no table build takes part in a call of the classifier alone
NoTable ==
    /\ junction_reads_2d = <<>>
    /\ event_annotation = {}
    /\ todo = <<>>
    /\ psis = <<>>
    /\ outputs = <<>>
    /\ maybe_rejected = <<>>
    /\ runs = <<>>

IsoformReads == SeqsUpTo(0..MaxReads, MaxIsoformLen)

\* the worked examples of the documentation: <<isoform1, isoform2,
\* n_junctions, min_reads, multiplier>>
DocumentedExamples ==
    { <<(<<12>>), (<<0>>), 1, 10, 10>>,
      <<(<<0>>), (<<15>>), 2, 10, 10>>,
      <<(<<12>>), (<<3>>), 2, 10, 10>>,
      <<(<<12>>), (<<9>>), 2, 10, 10>> }

ClassifierInputs ==
    (IsoformReads \X IsoformReads \X (1..MaxNJunctions)
        \X (0..MaxMinReads) \X (0..MaxMultiplier))
    \cup DocumentedExamples

InitClassifier ==
    /\ pc = "call"
    /\ \E in \in ClassifierInputs :
        /\ isoform1 = in[1]
        /\ isoform2 = in[2]
        /\ n_junctions = in[3]
        /\ min_reads = in[4]
        /\ multiplier = in[5]
    /\ result = [isoform1 |-> Pending, isoform2 |-> Pending, case |-> ""]
    /\ NoTable
    /\ NoReducerCall

Classify ==
    /\ pc = "call"
    /\ result' = _single_isoform_maybe_reject(isoform1, isoform2, n_junctions,
                                               min_reads, multiplier)
    /\ pc' = "returned"
    /\ UNCHANGED <<isoform1, isoform2, n_junctions, min_reads, multiplier>>
    /\ UNCHANGED table_vars
    /\ UNCHANGED reducer_vars

NextClassifier == Classify

SpecClassifier == InitClassifier /\ [][NextClassifier]_vars

-----------------------------------------------------------------------------
(* Specification of one call of the Coverage Filter                        *)

InitCoverage ==
    /\ pc = "call"
    /\ isoform1 \in SeqsUpTo(0..MaxReads, MaxIsoformLen + 1)
    /\ isoform2 = <<>>
    /\ n_junctions = 0
    /\ min_reads = 0
    /\ multiplier \in (0 - MaxMultiplier)..MaxMultiplier
    /\ result = Pending
    /\ NoTable
    /\ NoReducerCall

CheckCoverage ==
    /\ pc = "call"
    /\ result' = _single_sample_check_unequal_read_coverage(isoform1, multiplier)
    /\ pc' = "returned"
    /\ UNCHANGED <<isoform1, isoform2, n_junctions, min_reads, multiplier>>
    /\ UNCHANGED table_vars
    /\ UNCHANGED reducer_vars

NextCoverage == CheckCoverage

SpecCoverage == InitCoverage /\ [][NextCoverage]_vars

-----------------------------------------------------------------------------
(* _single_maybe_reject and _maybe_reject                                  *)
(*                                                                         *)
(* A row of the reads table is a function from junction id to read count;  *)
(* the table is a function from sample id to row.  The illegal junctions   *)
(* of an event are NaN (none) or a list of junction ids.                   *)

UNEVEN_COVERAGE_MULTIPLIER == 10

NaN == [nan |-> TRUE, ids |-> <<>>]
Ids(x) == [nan |-> FALSE, ids |-> x]

\* sample[isoform1_ids]
select(sample, ids) == [i \in 1..Len(ids) |-> sample[ids[i]]]

_single_maybe_reject(sample, isoform1_ids, isoform2_ids, n, m, k) ==
    LET r == _single_isoform_maybe_reject(select(sample, isoform1_ids),
                                          select(sample, isoform2_ids), n, m, k)
    IN  [reads |-> IF r.isoform1 = None THEN None ELSE Reads(sample),
         Case |-> r.case]

maybe_reject_illegal_strict(reads, isoform1_ids, isoform2_ids, illegal_ids, n, m, k) ==
    LET samples_with_illegal_coverage ==
            IF illegal_ids.nan THEN {}
            ELSE {s \in DOMAIN reads :
                    \E i \in 1..Len(illegal_ids.ids) : reads[s][illegal_ids.ids[i]] > m}
        kept == (DOMAIN reads) \ samples_with_illegal_coverage
    IN  [s \in kept |->
            _single_maybe_reject(reads[s], isoform1_ids, isoform2_ids, n, m, k)]

_maybe_reject(reads, isoform1_ids, isoform2_ids, illegal_ids, n, m, k) ==
    LET samples_with_illegal_coverage ==
            IF illegal_ids.nan THEN {}
            ELSE {s \in DOMAIN reads :
                    \E i \in 1..Len(illegal_ids.ids) : reads[s][illegal_ids.ids[i]] >= m}
        kept == (DOMAIN reads) \ samples_with_illegal_coverage
    IN  [s \in kept |->
            _single_maybe_reject(reads[s], isoform1_ids, isoform2_ids, n, m, k)]

-----------------------------------------------------------------------------
(* _single_event_psi                                                       *)

Range(f) == {f[i] : i \in DOMAIN f}

\* the junction columns of the (samples, junctions) table
columns(table) == UNION {DOMAIN table[s] : s \in DOMAIN table}

EventReturn(value, mr) ==
    [raised |-> FALSE, error |-> "", value |-> value, maybe_rejected |-> mr]
EventRaise(error) ==
    [raised |-> TRUE, error |-> error, value |-> None, maybe_rejected |-> <<>>]

single_event_psi_skips_bad_event(event_id, junction_locations, table, m, k) ==
    LET n_junctions1 == Len(junction_locations.isoform1)
        n_junctions2 == Len(junction_locations.isoform2)
        n_total == n_junctions1 + n_junctions2
        isoform1_junction_ids == junction_locations.isoform1
        isoform2_junction_ids == junction_locations.isoform2
        illegal_junction_ids == junction_locations.illegal
        junction_cols == isoform1_junction_ids \o isoform2_junction_ids
                         \o (IF illegal_junction_ids.nan THEN <<>>
                             ELSE illegal_junction_ids.ids)
    IN  IF ~(Range(junction_cols) \subseteq columns(table))
        THEN EventReturn(None, <<>>)
        ELSE LET reads == [s \in DOMAIN table |->
                              [j \in Range(junction_cols) |-> table[s][j]]]
             IN  EventReturn(None,
                     _maybe_reject(reads, isoform1_junction_ids,
                                   isoform2_junction_ids, illegal_junction_ids,
                                   n_total, m, k))

\* lines 424-447: the function returns (None) right after _maybe_reject;
\* the statements after line 447 are never executed
_single_event_psi(event_id, junction_locations, table, m, k) ==
    LET n_junctions1 == Len(junction_locations.isoform1)
        n_junctions2 == Len(junction_locations.isoform2)
        n_total == n_junctions1 + n_junctions2
        isoform1_junction_ids == junction_locations.isoform1
        isoform2_junction_ids == junction_locations.isoform2
        illegal_junction_ids == junction_locations.illegal
        junction_cols == isoform1_junction_ids \o isoform2_junction_ids
                         \o (IF illegal_junction_ids.nan THEN <<>>
                             ELSE illegal_junction_ids.ids)
    IN  IF ~(Range(junction_cols) \subseteq columns(table))
        \* junction_reads_2d[junction_cols] with a column that does not exist
        THEN EventRaise("KeyError")
        ELSE LET reads == [s \in DOMAIN table |->
                              [j \in Range(junction_cols) |-> table[s][j]]]
             IN  EventReturn(None,
                     _maybe_reject(reads, isoform1_junction_ids,
                                   isoform2_junction_ids, illegal_junction_ids,
                                   n_total, m, k))

-----------------------------------------------------------------------------
(* _maybe_parallelize_psi and calculate_psi                                *)

\* parameters of _single_event_psi in the order of its signature
single_event_psi_parameters ==
    <<"event_id", "event_df", "junction_reads_2d", "isoform1_junction_numbers",
      "isoform2_junction_numbers", "min_reads", "method", "multiplier",
      "debug", "log">>

\* Python's argument binding: a keyword that names a parameter already
\* filled by a positional argument is a TypeError
binds(n_positional, keywords) ==
    /\ n_positional <= Len(single_event_psi_parameters)
    /\ keywords \subseteq Range(single_event_psi_parameters)
    /\ \A i \in 1..n_positional : single_event_psi_parameters[i] \notin keywords

\* the call of the sequential loop (lines 507-511)
sequential_call_binds ==
    binds(5, {"min_reads", "multiplier", "method", "debug", "log"})

\* the call handed to joblib (lines 520-523), with reads_col as the sixth
\* positional argument
parallel_call_binds ==
    binds(6, {"min_reads", "multiplier", "method"})

RECURSIVE sorted(_)
sorted(S) ==
    IF S = {} THEN <<>>
    ELSE LET least == CHOOSE x \in S : \A y \in S : x <= y
         IN  <<least>> \o sorted(S \ {least})

\* event_annotation.groupby(level=0): the distinct event ids in sorted order
grouped(annotation) == sorted(annotation)

DataFrame(index, cols) == [index |-> index, columns |-> cols]
NoDataFrame == DataFrame({}, <<>>)

NotRun == [status |-> "not run", error |-> "", n_jobs |-> 0, psi_df |-> NoDataFrame]
Raised(error, n) == [status |-> "raised", error |-> error, n_jobs |-> n, psi_df |-> NoDataFrame]
Returned(df, n) == [status |-> "returned", error |-> "", n_jobs |-> n, psi_df |-> df]

\* lines 580-588: drop the None outputs, concatenate the rest column-wise;
\* with nothing to concatenate the table is empty, indexed by the samples
psi_table(series, table) ==
    LET kept == SelectSeq(series, LAMBDA x : x # None)
    IN  IF kept = <<>>
        THEN DataFrame(DOMAIN table, <<>>)
        ELSE DataFrame(UNION {DOMAIN kept[i].v : i \in 1..Len(kept)},
                       [name \in {kept[i].name : i \in 1..Len(kept)} |->
                           kept[CHOOSE i \in 1..Len(kept) : kept[i].name = name].v])

-----------------------------------------------------------------------------
(* The inputs of a table build                                             *)

Samples == {"s1", "s2"}
TableJunctions == {"j1", "j2", "j3"}
EventIds == {1, 2, 3}

\* the first row of each event of the annotation: event 2 names a junction
\* ("j9") that the reads table does not have
event_df(event_id) ==
    CASE event_id = 1 ->
            [isoform1 |-> <<"j1">>, isoform2 |-> <<"j2">>, illegal |-> Ids(<<"j3">>)]
      [] event_id = 2 ->
            [isoform1 |-> <<"j1">>, isoform2 |-> <<"j9">>, illegal |-> NaN]
      [] event_id = 3 ->
            [isoform1 |-> <<"j3">>, isoform2 |-> <<"j1", "j2">>, illegal |-> NaN]

NoClassifierCall ==
    /\ isoform1 = <<>>
    /\ isoform2 = <<>>
    /\ n_junctions = 0
    /\ result = Pending

Init ==
    /\ pc = "idle"
    /\ junction_reads_2d \in [Samples -> [TableJunctions -> 0..MaxTableReads]]
    /\ event_annotation \in SUBSET EventIds
    /\ min_reads \in 1..MaxTableMinReads
    /\ multiplier = UNEVEN_COVERAGE_MULTIPLIER
    /\ todo = <<>>
    /\ psis = <<>>
    /\ outputs = <<>>
    /\ maybe_rejected = <<>>
    /\ runs = [seq |-> NotRun, par |-> NotRun]
    /\ NoClassifierCall
    /\ NoReducerCall

\* calculate_psi(..., n_jobs=1) up to the head of the loop over the events
SequentialStart ==
    /\ pc = "idle"
    /\ runs.seq = NotRun
    /\ sequential_call_binds
    /\ todo' = grouped(event_annotation)
    /\ psis' = <<>>
    /\ outputs' = <<>>
    /\ maybe_rejected' = <<>>
    /\ pc' = "iterating"
    /\ UNCHANGED <<junction_reads_2d, event_annotation, runs, min_reads, multiplier>>
    /\ UNCHANGED classifier_vars
    /\ UNCHANGED reducer_vars

\* one iteration of the loop: nothing catches what _single_event_psi raises,
\* and its return value is not appended to psis
SingleEventPsi ==
    /\ pc = "iterating"
    /\ todo # <<>>
    /\ LET event_id == Head(todo)
           out == _single_event_psi(event_id, event_df(event_id),
                                    junction_reads_2d, min_reads, multiplier)
       IN  IF out.raised
           THEN /\ runs' = [runs EXCEPT !.seq = Raised(out.error, 1)]
                /\ pc' = "idle"
                /\ todo' = <<>>
                /\ UNCHANGED <<outputs, maybe_rejected>>
           ELSE /\ outputs' = (event_id :> out.value) @@ outputs
                /\ maybe_rejected' = (event_id :> out.maybe_rejected) @@ maybe_rejected
                /\ todo' = Tail(todo)
                /\ UNCHANGED <<runs, pc>>
    /\ UNCHANGED <<junction_reads_2d, event_annotation, psis, min_reads, multiplier>>
    /\ UNCHANGED classifier_vars
    /\ UNCHANGED reducer_vars

\* the loop is over: _maybe_parallelize_psi returns psis and calculate_psi
\* builds the table (lines 527, 580-588)
Assemble ==
    /\ pc = "iterating"
    /\ todo = <<>>
    /\ runs' = [runs EXCEPT !.seq = Returned(psi_table(psis, junction_reads_2d), 1)]
    /\ pc' = "idle"
    /\ UNCHANGED <<junction_reads_2d, event_annotation, todo, psis, outputs,
                   maybe_rejected, min_reads, multiplier>>
    /\ UNCHANGED classifier_vars
    /\ UNCHANGED reducer_vars

\* calculate_psi with n_jobs other than 1 (lines 515-527): the workers'
\* call does not bind; with no event at all, psis is returned unassigned
ParallelRun ==
    /\ pc = "idle"
    /\ runs.par = NotRun
    /\ \E n \in {-1, 2} :
          runs' = [runs EXCEPT !.par =
                      IF grouped(event_annotation) # <<>> /\ ~parallel_call_binds
                      THEN Raised("TypeError", n)
                      ELSE Raised("UnboundLocalError", n)]
    /\ UNCHANGED <<pc, junction_reads_2d, event_annotation, todo, psis, outputs,
                   maybe_rejected, min_reads, multiplier>>
    /\ UNCHANGED classifier_vars
    /\ UNCHANGED reducer_vars

Next == SequentialStart \/ SingleEventPsi \/ Assemble \/ ParallelRun

Spec == Init /\ [][Next]_vars

-----------------------------------------------------------------------------
(* _scale and _filter_and_scale                                            *)
(*                                                                         *)
(* The reads of one isoform are a Series indexed by (junction, sample): a  *)
(* function from <<junction, sample>> pairs to read counts, defined on the *)
(* pairs that have an entry.  A reduced value is the exact fraction        *)
(* num/den, so that x.sum()/float(n_junctions) is not rounded.             *)

Fraction(a, b) == [num |-> a, den |-> b]

_scale(x, n, how) ==
    IF how = "mean" THEN Fraction(sum(x), n)
    ELSE IF how = "min" THEN Fraction(minimum(x), 1)
    ELSE None

\* isoform2 / (isoform2 + isoform1) on two reduced values (line 476); a zero
\* denominator stands for the NaN that pandas gives for 0/0
psi(reduced1, reduced2) ==
    Fraction(reduced2.num * reduced1.den,
             reduced2.num * reduced1.den + reduced1.num * reduced2.den)

\* the entries of one sample (a group of groupby(level=1)), by junction
group(series, s) ==
    LET junctions == sorted({k[1] : k \in {q \in DOMAIN series : q[2] = s}})
    IN  [i \in 1..Len(junctions) |-> series[<<junctions[i], s>>]]

filter_and_scale_keeps_partial(series, n, how) ==
    IF DOMAIN series = {} THEN series
    ELSE LET filtered == series
             kept == {k[2] : k \in DOMAIN filtered}
         IN  [s \in kept |-> _scale(group(filtered, s), n, how)]

_filter_and_scale(series, n, how) ==
    IF DOMAIN series = {} THEN series
    ELSE LET complete == {s \in {k[2] : k \in DOMAIN series} :
                             Len(group(series, s)) = n}
             filtered == IF n > 1
                         THEN [k \in {q \in DOMAIN series : q[2] \in complete} |->
                                  series[k]]
                         ELSE series
             kept == {k[2] : k \in DOMAIN filtered}
         IN  [s \in kept |-> _scale(group(filtered, s), n, how)]

-----------------------------------------------------------------------------
(* Specification of one call of the Event Reducer                          *)

ReducerSamples == {"s1", "s2"}
Methods == {"mean", "min"}

\* the junctions of an isoform with n junctions
IsoformJunctions(n) == 1..n

\* every Series of reads on the junctions of the isoform: each
\* (junction, sample) pair has an entry or has none
ReadsSeries(n) ==
    UNION {[keys -> 0..MaxReducerReads] :
              keys \in SUBSET (IsoformJunctions(n) \X ReducerSamples)}

\* the documented example: reads [10, 20] on the two junctions of sample
\* s1, while sample s2 has an entry for the first junction only
DocumentedReads ==
    (<<1, "s1">> :> 10) @@ (<<2, "s1">> :> 20) @@ (<<1, "s2">> :> 5)

InitReducer ==
    /\ pc = "call"
    /\ \/ /\ n_junctions \in 1..MaxIsoformLen
          /\ isoform_reads \in ReadsSeries(n_junctions)
       \/ /\ n_junctions = 2
          /\ isoform_reads = DocumentedReads
    /\ method \in Methods
    /\ min_reads = 0
    /\ multiplier = 0
    /\ isoform1 = <<>>
    /\ isoform2 = <<>>
    /\ result = Pending
    /\ NoTable

FilterAndScale ==
    /\ pc = "call"
    /\ result' = _filter_and_scale(isoform_reads, n_junctions, method)
    /\ pc' = "returned"
    /\ UNCHANGED <<isoform1, isoform2, n_junctions, min_reads, multiplier>>
    /\ UNCHANGED table_vars
    /\ UNCHANGED reducer_vars

NextReducer == FilterAndScale

SpecReducer == InitReducer /\ [][NextReducer]_vars

-----------------------------------------------------------------------------
(* The decision table of the Sample Classifier as the documentation states *)
(* it: eleven rules in the order 1,2,3,4,5,6,7,8,9a,9b,9c (numbered 1..11) *)

TableRules == 1..11
DeferringRules == {5, 6, 7, 8, 11}

RuleHolds(r, i1, i2, m) ==
    CASE r = 1 -> (\A i \in DOMAIN i1 : i1[i] >= m) /\ (\A i \in DOMAIN i2 : i2[i] = 0)
      [] r = 2 -> (\A i \in DOMAIN i1 : i1[i] = 0) /\ (\A i \in DOMAIN i2 : i2[i] >= m)
      [] r = 3 -> (\A i \in DOMAIN i1 : i1[i] >= m) /\ (\A i \in DOMAIN i2 : i2[i] >= m)
      [] r = 4 -> (\E i \in DOMAIN i1 : i1[i] = 0) \/ (\E i \in DOMAIN i2 : i2[i] = 0)
      [] r = 5 -> (\A i \in DOMAIN i1 : i1[i] >= m) /\ (\A i \in DOMAIN i2 : i2[i] < m)
      [] r = 6 -> (\A i \in DOMAIN i1 : i1[i] < m) /\ (\A i \in DOMAIN i2 : i2[i] >= m)
      [] r = 7 -> (\A i \in DOMAIN i1 : i1[i] >= m) /\ (\E i \in DOMAIN i2 : i2[i] < m)
      [] r = 8 -> (\E i \in DOMAIN i1 : i1[i] < m) /\ (\A i \in DOMAIN i2 : i2[i] >= m)
      [] r = 9 -> (\A i \in DOMAIN i1 : i1[i] < m) /\ (\E i \in DOMAIN i2 : i2[i] < m)
      [] r = 10 -> (\E i \in DOMAIN i1 : i1[i] < m) /\ (\A i \in DOMAIN i2 : i2[i] < m)
      [] r = 11 -> (\E i \in DOMAIN i1 : i1[i] < m) \/ (\E i \in DOMAIN i2 : i2[i] < m)

IsFirstMatch(r, i1, i2, m) ==
    RuleHolds(r, i1, i2, m) /\ \A q \in 1..(r - 1) : ~RuleHolds(q, i1, i2, m)

RuleLabel(r) ==
    CASE r = 1 -> Case1 [] r = 2 -> Case2 [] r = 3 -> Case3 [] r = 4 -> Case4
      [] r = 5 -> Case5 [] r = 6 -> Case6 [] r = 7 -> Case7 [] r = 8 -> Case8
      [] r = 9 -> Case9a [] r = 10 -> Case9b [] r = 11 -> Case9

OptionLetters == {"a", "b", "c", "d"}
SufficientText(l) == ", option " \o l \o ": There are sufficient junction reads"
InsufficientText(l) == ", option " \o l \o ": There are insufficient junction reads"

\* every label the classifier can attach to rule r
LabelsOfRule(r) ==
    {RuleLabel(r)}
    \cup {RuleLabel(r) \o SufficientText(l) : l \in OptionLetters}
    \cup {RuleLabel(r) \o InsufficientText(l) : l \in OptionLetters}

\* the imbalance condition of the Coverage Filter on the first two junctions
Imbalanced(x, k) ==
    /\ Len(x) >= 2
    /\ \/ x[1] > x[2] /\ x[1] > k * x[2]
       \/ x[2] > x[1] /\ x[2] > k * x[1]

IsAccepted(res) == res.isoform1 = Reads(isoform1) /\ res.isoform2 = Reads(isoform2)
IsRejected(res) == res.isoform1 = None /\ res.isoform2 = None

TotalReadsSufficient == sum(isoform1) + sum(isoform2) >= min_reads * n_junctions

CallReturned == pc = "returned"
PassesCoverage == ~Imbalanced(isoform1, multiplier) /\ ~Imbalanced(isoform2, multiplier)

\* what the table prescribes for the rule r that matches first
OutcomeOfRule(r) ==
    /\ result.case \in LabelsOfRule(r)
    /\ r \in {1, 2, 3} => IsAccepted(result)
    /\ r \in {4, 9, 10} => IsRejected(result)
    /\ r \in DeferringRules =>
          IF TotalReadsSufficient THEN IsAccepted(result) ELSE IsRejected(result)

\* C1: after the coverage filter passed, the classifier returns the outcome
\* and the rule number of the first rule of the ordered table whose
\* condition holds; some rule always holds.
C1_FirstMatchWins ==
    (CallReturned /\ PassesCoverage) =>
        \E r \in TableRules :
            IsFirstMatch(r, isoform1, isoform2, min_reads) /\ OutcomeOfRule(r)

\* an input on which rule 1 and rule 3 both hold, decided as rule 1
C1_Witness ==
    /\ CallReturned /\ PassesCoverage
    /\ RuleHolds(1, isoform1, isoform2, min_reads)
    /\ RuleHolds(3, isoform1, isoform2, min_reads)
    /\ Len(isoform1) = 2 /\ isoform1[1] > 0
    /\ result = Accepted(isoform1, isoform2, Case1)

\* C2: the Coverage Filter returns a one-junction isoform as it is; with
\* first two read counts a and b it returns None exactly when
\* (a > b and a > multiplier*b) or (b > a and b > multiplier*a), and the
\* unchanged reads otherwise.
C2_CoverageFilter ==
    CallReturned =>
        /\ Len(isoform1) = 1 => result = Reads(isoform1)
        /\ Len(isoform1) >= 2 =>
              /\ result = None <=> Imbalanced(isoform1, multiplier)
              /\ ~Imbalanced(isoform1, multiplier) => result = Reads(isoform1)

\* the second junction outweighs the first one and the isoform is rejected
C2_Witness ==
    /\ CallReturned
    /\ Len(isoform1) >= 2
    /\ isoform1[2] > isoform1[1]
    /\ isoform1[1] > 0
    /\ result = None

\* C3: when the Coverage Filter rejects either isoform the classifier
\* returns (None, None, "Case 0: Unequal read coverage"), whatever the
\* other reads are and whichever rule of the table they would match.
C3_UnequalCoverageShortCircuits ==
    (CallReturned /\ ~PassesCoverage) => result = Rejected(Case0)

\* isoform2 is imbalanced while the reads satisfy rule 2 of the table
C3_Witness ==
    /\ CallReturned
    /\ min_reads >= 1
    /\ Imbalanced(isoform2, multiplier)
    /\ RuleHolds(2, isoform1, isoform2, min_reads)
    /\ result = Rejected(Case0)

FirstMatchDefers ==
    \E r \in DeferringRules : IsFirstMatch(r, isoform1, isoform2, min_reads)

\* C4: when the first matching rule defers to the total-reads check, the
\* sample is accepted with its reads unchanged iff
\* sum(isoform1) + sum(isoform2) >= min_reads * n_junctions, and is
\* rejected with (None, None) otherwise.
C4_TotalReadsCheck ==
    (CallReturned /\ PassesCoverage /\ FirstMatchDefers) =>
        /\ IsAccepted(result) <=> TotalReadsSufficient
        /\ ~TotalReadsSufficient <=> IsRejected(result)

\* min_reads=10, n_junctions=2: [12],[3] is rejected (15 < 20)
C4_Witness ==
    /\ CallReturned
    /\ isoform1 = <<12>> /\ isoform2 = <<3>>
    /\ min_reads = 10 /\ n_junctions = 2
    /\ FirstMatchDefers
    /\ IsRejected(result)

\* C5 as stated: every deferring rule (5, 6, 7, 8 and 9c) labels an
\* accepted sample with option a and a rejected one with option b.
C5_OptionsAB ==
    (CallReturned /\ PassesCoverage) =>
        \A r \in DeferringRules :
            IsFirstMatch(r, isoform1, isoform2, min_reads) =>
                result.case = IF IsAccepted(result)
                              THEN RuleLabel(r) \o SufficientText("a")
                              ELSE RuleLabel(r) \o InsufficientText("b")

\* C5 amended: rules 5, 6, 7 and 8 label an accepted sample with option a
\* and a rejected one with option b; rule 9c labels them with option c and
\* option d.
C5_OptionsByRule ==
    (CallReturned /\ PassesCoverage) =>
        \A r \in DeferringRules :
            IsFirstMatch(r, isoform1, isoform2, min_reads) =>
                LET yes == IF r = 11 THEN "c" ELSE "a"
                    no == IF r = 11 THEN "d" ELSE "b"
                IN  result.case = IF IsAccepted(result)
                                  THEN RuleLabel(r) \o SufficientText(yes)
                                  ELSE RuleLabel(r) \o InsufficientText(no)

\* rule 9c accepts a sample and labels it with option c
C5_Witness ==
    /\ CallReturned /\ PassesCoverage
    /\ IsFirstMatch(11, isoform1, isoform2, min_reads)
    /\ IsAccepted(result)
    /\ result.case = Case9 \o SufficientText("c")

-----------------------------------------------------------------------------
(* Claims about the table build                                            *)

Visited == DOMAIN outputs

SeqFinished == runs.seq.status # "not run"
ParFinished == runs.par.status # "not run"

\* an illegal junction of event e has at least min_reads reads in sample s
IllegalCovered(e, s) ==
    /\ ~event_df(e).illegal.nan
    /\ \E j \in Range(event_df(e).illegal.ids) : junction_reads_2d[s][j] >= min_reads

Isoform1Reads(e, s) == select(junction_reads_2d[s], event_df(e).isoform1)
Isoform2Reads(e, s) == select(junction_reads_2d[s], event_df(e).isoform2)

\* what the classifier returns for sample s of event e
ClassifierOn(e, s) ==
    _single_isoform_maybe_reject(Isoform1Reads(e, s), Isoform2Reads(e, s),
        Len(event_df(e).isoform1) + Len(event_df(e).isoform2),
        min_reads, multiplier)

\* sample s has a value in the psi Series returned for event e
InPsiOutput(e, s) ==
    /\ e \in Visited
    /\ outputs[e].tag = "psi"
    /\ s \in DOMAIN outputs[e].v

\* sample s has a value in column e of the table a run returned
InPsiTable(run, e, s) ==
    /\ run.status = "returned"
    /\ e \in DOMAIN run.psi_df.columns
    /\ s \in DOMAIN run.psi_df.columns[e]

ExpectedPsi(x1, x2, how) ==
    IF how = "mean"
    THEN [num |-> sum(x2) * Len(x1),
          den |-> sum(x1) * Len(x2) + sum(x2) * Len(x1)]
    ELSE [num |-> minimum(x2), den |-> minimum(x1) + minimum(x2)]

\* the classifier kept sample s of the visited event e
Retained(e, s) ==
    /\ e \in DOMAIN maybe_rejected
    /\ s \in DOMAIN maybe_rejected[e]
    /\ maybe_rejected[e][s].reads # None

\* C7: every sample retained by an event has, in the event's psi output,
\* the value isoform2_reduced / (isoform1_reduced + isoform2_reduced),
\* which lies in [0, 1]; when both reduced values are zero it has no value.
C7_PsiOfRetainedSamples ==
    \A e \in DOMAIN maybe_rejected : \A s \in Samples :
        Retained(e, s) =>
            \E how \in {"mean", "min"} :
                LET want == ExpectedPsi(Isoform1Reads(e, s), Isoform2Reads(e, s), how)
                IN  IF want.den = 0
                    THEN ~InPsiOutput(e, s)
                    ELSE /\ InPsiOutput(e, s)
                         /\ outputs[e].v[s].num * want.den = want.num * outputs[e].v[s].den
                         /\ 0 <= want.num /\ want.num <= want.den

\* C8: a run with n_jobs=1 and a run with parallel workers on the same
\* inputs end the same way and with the same table.
C8_SequentialEqualsParallel ==
    (SeqFinished /\ ParFinished) =>
        /\ runs.par.status = runs.seq.status
        /\ runs.par.psi_df = runs.seq.psi_df

\* event e names a junction that the reads table does not have
Malformed(e) ==
    ~(Range(event_df(e).isoform1) \cup Range(event_df(e).isoform2)
        \subseteq TableJunctions)

FailingEvents == {e \in event_annotation : Malformed(e)}

Survives(e, s) ==
    /\ ~IllegalCovered(e, s)
    /\ ClassifierOn(e, s).isoform1 # None
    /\ ExpectedPsi(Isoform1Reads(e, s), Isoform2Reads(e, s), "mean").den # 0

\* C10: the returned table has a column for an event iff some sample
\* survives for it; its row index is the sample set of the reads table, and
\* the build returns without raising also when no event has a psi value.
C10_ColumnsIffSurvivors ==
    (SeqFinished /\ FailingEvents = {}) =>
        /\ runs.seq.status = "returned"
        /\ DOMAIN runs.seq.psi_df.columns =
              {e \in event_annotation : \E s \in Samples : Survives(e, s)}
        /\ runs.seq.psi_df.index = Samples

-----------------------------------------------------------------------------
(* Claims about the Event Reducer                                          *)

\* sample s has a read entry for every junction of the isoform
HasAllJunctions(s) ==
    \A j \in IsoformJunctions(n_junctions) : <<j, s>> \in DOMAIN isoform_reads

ReadsOfSample(s) ==
    [j \in IsoformJunctions(n_junctions) |-> isoform_reads[<<j, s>>]]

-----------------------------------------------------------------------------
(* Further claims about the Sample Classifier                              *)

\* the labels of Case 0 to Case 9 (9a, 9b, and 9 with its options)
LabelsCase0To9 ==
    {Case0, Case1, Case2, Case3, Case4, Case9a, Case9b}
    \cup {RuleLabel(r) \o SufficientText("a") : r \in {5, 6, 7, 8}}
    \cup {RuleLabel(r) \o InsufficientText("b") : r \in {5, 6, 7, 8}}
    \cup {Case9 \o SufficientText("c"), Case9 \o InsufficientText("d")}

\* C12: on isoforms of one or two junctions with non-negative reads and
\* min_reads >= 0 the classifier returns one of Case 0 to Case 9; it returns
\* neither Case 10 nor the unclassified sentinel.
C12_ClassifierTotal ==
    CallReturned =>
        /\ result.case \in LabelsCase0To9
        /\ result.case # Case10
        /\ result.case # CaseUnknown
        /\ result.isoform1 # Unclassified
        /\ result.isoform2 # Unclassified
        /\ IsAccepted(result) \/ IsRejected(result)

\* the condition shared by Case 9 and Case 10 holds, no earlier rule
\* matches, and the sample is decided inside Case 9
C12_Witness ==
    /\ CallReturned /\ PassesCoverage
    /\ \A q \in 1..8 : ~RuleHolds(q, isoform1, isoform2, min_reads)
    /\ RuleHolds(11, isoform1, isoform2, min_reads)
    /\ result.case \in {Case9a, Case9b, Case9 \o SufficientText("c"),
                        Case9 \o InsufficientText("d")}

HasZeroJunction ==
    (\E i \in DOMAIN isoform1 : isoform1[i] = 0)
        \/ (\E i \in DOMAIN isoform2 : isoform2[i] = 0)

\* isoform1_reduced + isoform2_reduced is positive under the reduction how
ReducedSumPositive(x1, x2, how) ==
    LET r1 == _scale(x1, Len(x1), how)
        r2 == _scale(x2, Len(x2), how)
    IN  /\ r1.den > 0 /\ r2.den > 0
        /\ r1.num * r2.den + r2.num * r1.den > 0

\* C13: with min_reads >= 1, an accepted sample that has a zero-read
\* junction was accepted by rule 1 or rule 2, and every accepted sample has
\* isoform1_reduced + isoform2_reduced > 0 under "mean" and under "min".
C13_AcceptedHasReads ==
    (CallReturned /\ min_reads >= 1 /\ IsAccepted(result)) =>
        /\ HasZeroJunction => result.case \in {Case1, Case2}
        /\ \A how \in Methods : ReducedSumPositive(isoform1, isoform2, how)

\* a sample with an all-zero isoform2 of two junctions is accepted by rule 1
C13_Witness ==
    /\ CallReturned /\ min_reads >= 1 /\ IsAccepted(result)
    /\ isoform2 = <<0, 0>>
    /\ result.case = Case1
    /\ \A how \in Methods : ReducedSumPositive(isoform1, isoform2, how)

\* the classifier on the same sample with the two isoforms exchanged
SwappedResult ==
    _single_isoform_maybe_reject(isoform2, isoform1, n_junctions,
                                 min_reads, multiplier)

SwappedAccepted ==
    SwappedResult.isoform1 = Reads(isoform2) /\ SwappedResult.isoform2 = Reads(isoform1)

\* the rule a label belongs to, Case 0 counting as rule 0
FiredRule(res) ==
    IF res.case = Case0 THEN 0
    ELSE CHOOSE r \in TableRules : res.case \in LabelsOfRule(r)

\* 1<->2, 3<->3, 4<->4, 5<->6, 7<->8, 9a<->9b, 9c<->9c
PairedRule(r) ==
    CASE r = 0 -> 0 [] r = 1 -> 2 [] r = 2 -> 1 [] r = 3 -> 3 [] r = 4 -> 4
      [] r = 5 -> 6 [] r = 6 -> 5 [] r = 7 -> 8 [] r = 8 -> 7
      [] r = 9 -> 10 [] r = 10 -> 9 [] r = 11 -> 11

\* exchanging the isoforms turns the PSI p of the sample into 1 - p, under
\* the reduction how; both are undefined together
PsiComplement(how) ==
    LET r1 == _scale(isoform1, Len(isoform1), how)
        r2 == _scale(isoform2, Len(isoform2), how)
        p == psi(r1, r2)
        q == psi(r2, r1)
    IN  /\ p.den = 0 <=> q.den = 0
        /\ p.den # 0 => q.num * p.den = (p.den - p.num) * q.den

\* C14 as stated: the decision is the same with the isoforms exchanged,
\* the fired rules are paired 1<->2, 3<->3, 4<->4, 5<->6, 7<->8, 9a<->9b,
\* 9c<->9c, and the PSI of an accepted sample becomes 1 - p.
C14_SymmetricWithPairedRules ==
    CallReturned =>
        /\ IsAccepted(result) <=> SwappedAccepted
        /\ FiredRule(SwappedResult) = PairedRule(FiredRule(result))
        /\ IsAccepted(result) => \A how \in Methods : PsiComplement(how)

\* both orders satisfy the condition of the earlier rule of a pair
BothAllBelow ==
    /\ \A i \in DOMAIN isoform1 : isoform1[i] < min_reads
    /\ \A i \in DOMAIN isoform2 : isoform2[i] < min_reads
BothAllZeroAndCovered ==
    /\ \A i \in DOMAIN isoform1 : isoform1[i] = 0 /\ isoform1[i] >= min_reads
    /\ \A i \in DOMAIN isoform2 : isoform2[i] = 0 /\ isoform2[i] >= min_reads

\* C14 amended: the decision is the same with the isoforms exchanged and
\* the PSI of an accepted sample becomes 1 - p (undefined stays undefined);
\* the fired rules are paired as stated, except that rule 9a fires in both
\* orders when both isoforms are entirely below min_reads, and rule 1 fires
\* in both orders when all reads are zero and min_reads is 0.
C14_SymmetricDecision ==
    CallReturned =>
        /\ IsAccepted(result) <=> SwappedAccepted
        /\ IsRejected(result) <=> IsRejected(SwappedResult)
        /\ FiredRule(SwappedResult) =
              IF FiredRule(result) = 9 /\ BothAllBelow THEN 9
              ELSE IF FiredRule(result) = 1 /\ BothAllZeroAndCovered THEN 1
              ELSE PairedRule(FiredRule(result))
        /\ IsAccepted(result) => \A how \in Methods : PsiComplement(how)

\* rule 7 accepts a sample that rule 8 accepts with the isoforms exchanged
C14_Witness ==
    /\ CallReturned /\ PassesCoverage
    /\ FiredRule(result) = 7
    /\ IsAccepted(result)
    /\ FiredRule(SwappedResult) = 8
    /\ SwappedAccepted
    /\ \A how \in Methods : PsiComplement(how)

====
